---- MODULE Spec2Model ----
(***************************************************************************)
(* The two NINA status-fetch scripts, nina_API/fetch_status_endpoints.py   *)
(* ("per_endpoint") and nina_API/fetch_astromele3_combined.py ("combined"),*)
(* as one state machine.  A run loads api-1.json, extracts the GET         *)
(* operations, filters them to the status endpoints, fetches each one and  *)
(* writes its output.  Strings are sequences of one-character strings, so  *)
(* that lower(), strip(), replace() and the substring test are computed    *)
(* character by character as Python computes them.                         *)
(*                                                                         *)
(* Not represented: console output, the summary/description/tags fields of *)
(* an operation, fetch_time/fetch_timestamp (wall-clock values) and the    *)
(* grouping and ordering of the lines of the text report.                  *)
(***************************************************************************)
EXTENDS Integers, Sequences, FiniteSets, TLC

\* Largest number of entries of the `paths` mapping of an enumerated api-1.json.
MaxPaths == 3

----------------------------------------------------------------------------
\* Strings

\* The small letter of every ASCII capital.
ascii_lowercase ==
    [ A |-> "a", B |-> "b", C |-> "c", D |-> "d", E |-> "e", F |-> "f",
      G |-> "g", H |-> "h", I |-> "i", J |-> "j", K |-> "k", L |-> "l",
      M |-> "m", N |-> "n", O |-> "o", P |-> "p", Q |-> "q", R |-> "r",
      S |-> "s", T |-> "t", U |-> "u", V |-> "v", W |-> "w", X |-> "x",
      Y |-> "y", Z |-> "z" ]

\* str.lower() on one character: a capital maps to its small letter, any other
\* character to itself.
LowerChar(c) == IF c \in DOMAIN ascii_lowercase THEN ascii_lowercase[c] ELSE c

\* path.lower()
lower(s) == [n \in 1..Len(s) |-> LowerChar(s[n])]

\* Python's `sub in s` for strings: sub occurs in s at some offset.
Contains(s, sub) ==
    \E off \in 0..(Len(s) - Len(sub)) : \A n \in 1..Len(sub) : s[off + n] = sub[n]

\* s.replace(old, new) for single characters old and new.
replace(s, old, new) == [n \in 1..Len(s) |-> IF s[n] = old THEN new ELSE s[n]]

\* s.strip(c): every leading and every trailing c removed.
RECURSIVE lstrip(_, _)
lstrip(s, c) == IF s # <<>> /\ Head(s) = c THEN lstrip(Tail(s), c) ELSE s

RECURSIVE rstrip(_, _)
rstrip(s, c) ==
    IF s # <<>> /\ s[Len(s)] = c THEN rstrip(SubSeq(s, 1, Len(s) - 1), c) ELSE s

strip(s, c) == rstrip(lstrip(s, c), c)

----------------------------------------------------------------------------
\* Constants of the scripts

base_url ==
    <<"h","t","t","p",":","/","/","a","s","t","r","o","m","e","l","e","3",".","l","a","n",":","1","8","8","8","/","v","2","/","a","p","i">>

control_keywords ==
    << <<"c","o","n","n","e","c","t">>,
       <<"d","i","s","c","o","n","n","e","c","t">>,
       <<"s","e","t","-">>,
       <<"c","h","a","n","g","e","-">>,
       <<"a","d","d","-">>,
       <<"r","e","m","o","v","e","-">>,
       <<"c","o","o","l">>,
       <<"w","a","r","m">>,
       <<"a","b","o","r","t">>,
       <<"m","o","v","e">>,
       <<"s","l","e","w">>,
       <<"p","a","r","k">>,
       <<"u","n","p","a","r","k">>,
       <<"h","o","m","e">>,
       <<"s","t","a","r","t">>,
       <<"s","t","o","p">>,
       <<"o","p","e","n">>,
       <<"c","l","o","s","e">>,
       <<"s","y","n","c">>,
       <<"f","l","i","p">>,
       <<"r","e","v","e","r","s","e">>,
       <<"c","l","e","a","r">>,
       <<"r","e","s","c","a","n">>,
       <<"s","w","i","t","c","h">>,
       <<"e","d","i","t">>,
       <<"r","e","s","e","t">>,
       <<"l","o","a","d">>,
       <<"c","a","p","t","u","r","e">>,
       <<"s","o","l","v","e">>,
       <<"d","e","t","e","r","m","i","n","e">>,
       <<"a","u","t","o","-","f","o","c","u","s">> >>

----------------------------------------------------------------------------
\* The api-1.json documents a run is started on

\* Paths that differ only in a trailing slash, one with a parameter and one
\* with a keyword.
SlashPool ==
    { <<"/","a">>,
      <<"/","a","/">>,
      <<"/","a","/","{","b","}">>,
      <<"/","a","/","p","a","r","k">> }

\* Paths that differ only in slashes and underscores, and one with a parameter.
UnderscorePool ==
    { <<"/","a","/","b">>,
      <<"/","a","_","b">>,
      <<"/","a","/","/","b">>,
      <<"/","a","/","b","/","{","c","}">> }

\* The paths of the scenario in the description of the classifier.
ScenarioPool ==
    { <<"/","e","q","u","i","p","m","e","n","t","/","c","a","m","e","r","a","/","i","n","f","o">>,
      <<"/","m","o","u","n","t","/","s","l","e","w","/","{","r","a","}","/","{","d","e","c","}">>,
      <<"/","m","o","u","n","t","/","p","a","r","k">>,
      <<"/","s","e","q","u","e","n","c","e","/","s","t","a","t","e">> }

\* A keyword in capitals, a keyword inside a longer word, a parameter without a
\* keyword, and a path with neither.
ExamplePool ==
    { <<"/","M","o","u","n","t","/","P","A","R","K">>,
      <<"/","e","q","u","i","p","m","e","n","t","/","l","o","a","d","f","i","l","e">>,
      <<"/","i","m","a","g","e","/","{","i","n","d","e","x","}">>,
      <<"/","v","e","r","s","i","o","n">> }

\* Per control keyword: the keyword as a path segment, the keyword in capitals
\* inside a longer word, and a near miss that contains no keyword.
KeywordPools ==
    << { <<"/","e","q","/","c","o","n","n","e","c","t">>,
         <<"/","E","q","/","x","C","O","N","N","E","C","T","y">>,
         <<"/","e","q","/","c","o","n","n","e","c">> },
       { <<"/","e","q","/","d","i","s","c","o","n","n","e","c","t">>,
         <<"/","E","q","/","x","D","I","S","C","O","N","N","E","C","T","y">>,
         <<"/","e","q","/","d","i","s","c","o","n","n","e","c">> },
       { <<"/","e","q","/","s","e","t","-">>,
         <<"/","E","q","/","x","S","E","T","-","y">>,
         <<"/","e","q","/","s","e","t">> },
       { <<"/","e","q","/","c","h","a","n","g","e","-">>,
         <<"/","E","q","/","x","C","H","A","N","G","E","-","y">>,
         <<"/","e","q","/","c","h","a","n","g","e">> },
       { <<"/","e","q","/","a","d","d","-">>,
         <<"/","E","q","/","x","A","D","D","-","y">>,
         <<"/","e","q","/","a","d","d">> },
       { <<"/","e","q","/","r","e","m","o","v","e","-">>,
         <<"/","E","q","/","x","R","E","M","O","V","E","-","y">>,
         <<"/","e","q","/","r","e","m","z","o","v","e","-">> },
       { <<"/","e","q","/","c","o","o","l">>,
         <<"/","E","q","/","x","C","O","O","L","y">>,
         <<"/","e","q","/","c","o","o">> },
       { <<"/","e","q","/","w","a","r","m">>,
         <<"/","E","q","/","x","W","A","R","M","y">>,
         <<"/","e","q","/","w","a","r">> },
       { <<"/","e","q","/","a","b","o","r","t">>,
         <<"/","E","q","/","x","A","B","O","R","T","y">>,
         <<"/","e","q","/","a","b","o","r">> },
       { <<"/","e","q","/","m","o","v","e">>,
         <<"/","E","q","/","x","M","O","V","E","y">>,
         <<"/","e","q","/","m","o","v">> },
       { <<"/","e","q","/","s","l","e","w">>,
         <<"/","E","q","/","x","S","L","E","W","y">>,
         <<"/","e","q","/","s","l","e">> },
       { <<"/","e","q","/","p","a","r","k">>,
         <<"/","E","q","/","x","P","A","R","K","y">>,
         <<"/","e","q","/","p","a","r">> },
       { <<"/","e","q","/","u","n","p","a","r","k">>,
         <<"/","E","q","/","x","U","N","P","A","R","K","y">>,
         <<"/","e","q","/","u","n","p","a","r">> },
       { <<"/","e","q","/","h","o","m","e">>,
         <<"/","E","q","/","x","H","O","M","E","y">>,
         <<"/","e","q","/","h","o","m">> },
       { <<"/","e","q","/","s","t","a","r","t">>,
         <<"/","E","q","/","x","S","T","A","R","T","y">>,
         <<"/","e","q","/","s","t","a","r">> },
       { <<"/","e","q","/","s","t","o","p">>,
         <<"/","E","q","/","x","S","T","O","P","y">>,
         <<"/","e","q","/","s","t","o">> },
       { <<"/","e","q","/","o","p","e","n">>,
         <<"/","E","q","/","x","O","P","E","N","y">>,
         <<"/","e","q","/","o","p","e">> },
       { <<"/","e","q","/","c","l","o","s","e">>,
         <<"/","E","q","/","x","C","L","O","S","E","y">>,
         <<"/","e","q","/","c","l","o","s">> },
       { <<"/","e","q","/","s","y","n","c">>,
         <<"/","E","q","/","x","S","Y","N","C","y">>,
         <<"/","e","q","/","s","y","n">> },
       { <<"/","e","q","/","f","l","i","p">>,
         <<"/","E","q","/","x","F","L","I","P","y">>,
         <<"/","e","q","/","f","l","i">> },
       { <<"/","e","q","/","r","e","v","e","r","s","e">>,
         <<"/","E","q","/","x","R","E","V","E","R","S","E","y">>,
         <<"/","e","q","/","r","e","v","e","r","s">> },
       { <<"/","e","q","/","c","l","e","a","r">>,
         <<"/","E","q","/","x","C","L","E","A","R","y">>,
         <<"/","e","q","/","c","l","e","a">> },
       { <<"/","e","q","/","r","e","s","c","a","n">>,
         <<"/","E","q","/","x","R","E","S","C","A","N","y">>,
         <<"/","e","q","/","r","e","s","c","a">> },
       { <<"/","e","q","/","s","w","i","t","c","h">>,
         <<"/","E","q","/","x","S","W","I","T","C","H","y">>,
         <<"/","e","q","/","s","w","i","t","c">> },
       { <<"/","e","q","/","e","d","i","t">>,
         <<"/","E","q","/","x","E","D","I","T","y">>,
         <<"/","e","q","/","e","d","i">> },
       { <<"/","e","q","/","r","e","s","e","t">>,
         <<"/","E","q","/","x","R","E","S","E","T","y">>,
         <<"/","e","q","/","r","e","s","e">> },
       { <<"/","e","q","/","l","o","a","d">>,
         <<"/","E","q","/","x","L","O","A","D","y">>,
         <<"/","e","q","/","l","o","a">> },
       { <<"/","e","q","/","c","a","p","t","u","r","e">>,
         <<"/","E","q","/","x","C","A","P","T","U","R","E","y">>,
         <<"/","e","q","/","c","a","p","t","u","r">> },
       { <<"/","e","q","/","s","o","l","v","e">>,
         <<"/","E","q","/","x","S","O","L","V","E","y">>,
         <<"/","e","q","/","s","o","l","v">> },
       { <<"/","e","q","/","d","e","t","e","r","m","i","n","e">>,
         <<"/","E","q","/","x","D","E","T","E","R","M","I","N","E","y">>,
         <<"/","e","q","/","d","e","t","e","r","m","i","n">> },
       { <<"/","e","q","/","a","u","t","o","-","f","o","c","u","s">>,
         <<"/","E","q","/","x","A","U","T","O","-","F","O","C","U","S","y">>,
         <<"/","e","q","/","a","u","t","o","-","f","o","c","u">> } >>

\* The pools the runs of the whole pipeline draw their paths from.
RunPools == {SlashPool, UnderscorePool}

\* The pools the runs that exercise the classifier draw their paths from.
ClassifyPools ==
    {ScenarioPool, ExamplePool} \cup {KeywordPools[k] : k \in DOMAIN KeywordPools}

\* The method mappings an enumerated path carries.
MethodSets == { {"get", "put"}, {"post"} }

\* The `paths` mappings over a pool: at most MaxPaths entries, in file order,
\* no key twice (a JSON object loaded into a dict keeps one entry per key).
PathLists(pool) ==
    UNION { { s \in [1..n -> [path : pool, methods : MethodSets]] :
                \A a, b \in 1..n : a # b => s[a].path # s[b].path } :
            n \in 0..MaxPaths }

\* The paths of the documents enumerated without info.version.
VersionlessPool == { <<"/","a">>, <<"/","a","/","{","b","}">> }

\* The documents without a `paths` mapping.
NoPathsDocs ==
    { [has_paths |-> FALSE, has_version |-> v, paths |-> <<>>] : v \in BOOLEAN }

\* The documents with a `paths` mapping over one of the pools.
DocsOver(pools, has_version) ==
    { [has_paths |-> TRUE, has_version |-> has_version, paths |-> s] :
        s \in UNION { PathLists(pool) : pool \in pools } }

\* The documents of the runs of the whole pipeline: complete ones, ones
\* without info.version and ones without `paths`.
Docs ==
    DocsOver(RunPools, TRUE) \cup DocsOver({VersionlessPool}, FALSE) \cup NoPathsDocs

\* The documents of the runs that exercise the classifier.
ClassifyDocs == DocsOver(ClassifyPools, TRUE) \cup NoPathsDocs

Scripts == {"per_endpoint", "combined"}

----------------------------------------------------------------------------
\* What the device can answer to one GET

StatusCodes == {101, 200, 300, 404, 500}

\* requests.get() either raises (no response) or returns a response with a
\* status code and a body that is JSON or is not.
Responses ==
    { [kind |-> k, status_code |-> 0, json |-> FALSE] : k \in {"ConnectionError", "Timeout"} }
    \cup { [kind |-> "response", status_code |-> s, json |-> j] :
             s \in StatusCodes, j \in BOOLEAN }

\* The parsed body of the answer to a GET of url.
Document(url) == [document_of |-> url]

\* Python's None.
None == [none |-> TRUE]

\* A name not yet bound.
Unset == [unset |-> TRUE]

----------------------------------------------------------------------------
\* Output file names

summary_json == <<"f","e","t","c","h","_","s","u","m","m","a","r","y",".","j","s","o","n">>

output_file == <<"a","s","t","r","o","m","e","l","e","3","_","s","t","a","t","u","s","_","c","o","m","b","i","n","e","d",".","j","s","o","n">>

summary_file == <<"a","s","t","r","o","m","e","l","e","3","_","e","n","d","p","o","i","n","t","_","s","u","m","m","a","r","y",".","t","x","t">>

dot_json == <<".","j","s","o","n">>

----------------------------------------------------------------------------
VARIABLES
    script,            \* which of the two scripts runs
    api_spec,          \* the loaded api-1.json
    pc,                \* the statement the run is at
    idx,               \* position of the running for loop
    get_endpoints,     \* list of endpoint_info
    status_endpoints,  \* list of endpoint_info kept by the filter
    requests,          \* the URLs GET was issued for, in order
    results,           \* per_endpoint: list of result records
    summary,           \* per_endpoint: the summary dict
    combined_data,     \* combined: the combined dict
    successful_count,  \* combined
    failed_count,      \* combined
    files,             \* the files written, name -> content
    response,          \* what the last requests.get returned or raised
    error              \* the exception that ended the run, "none" if none did

vars == << script, api_spec, pc, idx, get_endpoints, status_endpoints, requests,
           results, summary, combined_data, successful_count, failed_count, files,
           response, error >>

\* The state after json.load(f), on the document doc.
Loaded(doc) ==
    /\ api_spec = doc
    /\ pc = "extract"
    /\ idx = 1
    /\ get_endpoints = <<>>
    /\ status_endpoints = <<>>
    /\ requests = <<>>
    /\ results = <<>>
    /\ summary = Unset
    /\ combined_data = Unset
    /\ successful_count = 0
    /\ failed_count = 0
    /\ files = <<>>
    /\ response = Unset
    /\ error = "none"

Init == \E doc \in Docs : script \in Scripts /\ Loaded(doc)

InitClassify == \E doc \in ClassifyDocs : script \in Scripts /\ Loaded(doc)

----------------------------------------------------------------------------
\* Helpers of the scripts

\* d[k] = v on a dict d.
Put(d, k, v) == [x \in (DOMAIN d) \cup {k} |-> IF x = k THEN v ELSE d[x]]

\* A variant that looks for the '{' at the start of the path only.
has_parameter_prefix(path) == path # <<>> /\ Head(path) = "{"

\* '{' in path
has_parameter(path) == Contains(path, <<"{">>)

\* A variant that leaves out the .lower().
is_control_case_sensitive(path) ==
    \E k \in DOMAIN control_keywords : Contains(path, control_keywords[k])

\* any(keyword in path.lower() for keyword in control_keywords)
is_control(path) ==
    LET lowered == lower(path)
    IN  \E k \in DOMAIN control_keywords : Contains(lowered, control_keywords[k])

\* A variant without the `continue` on a parameter.
is_status_no_continue(path) == ~is_control(path)

\* The filter's decision on one endpoint: `continue` on a parameter, append
\* unless is_control.
is_status(path) == IF has_parameter(path) THEN FALSE ELSE ~is_control(path)

\* filename = path.replace('/', '_').strip('_') + '.json'
filename(path) == strip(replace(path, "/", "_"), "_") \o dot_json

\* endpoint_key = path.strip('/')
endpoint_key(path) == strip(path, "/")

\* url = base_url + path
url(path) == base_url \o path

\* response.raise_for_status(): HTTPError for a 4xx or 5xx status.
raise_for_status(status_code) == 400 <= status_code /\ status_code < 600

\* The exception the try body raises on a response, "none" if it runs through:
\* requests.get, raise_for_status, response.json, then (per_endpoint) the
\* write of the data file.
Raised(resp, write_ok) ==
    IF resp.kind # "response" THEN resp.kind
    ELSE IF raise_for_status(resp.status_code) THEN "HTTPError"
    ELSE IF ~resp.json THEN "JSONDecodeError"
    ELSE IF script = "per_endpoint" /\ ~write_ok THEN "OSError"
    ELSE "none"

\* A variant that catches requests.exceptions.HTTPError only.
Caught_http_only(exc) == exc = "HTTPError"

\* except requests.exceptions.RequestException: the classes it catches.
\* ConnectionError, Timeout and HTTPError derive from it, and so does the
\* JSONDecodeError that response.json() raises (requests 2.27 and later);
\* the OSError of a failing open() does not.
Caught(exc) == exc \in {"ConnectionError", "Timeout", "HTTPError", "JSONDecodeError"}

\* results.append({... 'status': 'success' ...})
SuccessResult(path, code) ==
    [endpoint |-> path, status |-> "success", filename |-> filename(path),
     status_code |-> code]

\* A variant that records a failure under another status word than the
\* summary counts.
ErrorResult_failed(path, exc) == [endpoint |-> path, status |-> "failed", error |-> exc]

\* results.append({... 'status': 'error' ...})
ErrorResult(path, exc) == [endpoint |-> path, status |-> "error", error |-> exc]

\* _fetch_status of a successful fetch
SuccessStatus(code) == [success |-> TRUE, status_code |-> code]

\* _fetch_status of a failed fetch
FailureStatus(exc) == [success |-> FALSE, error |-> exc]

\* sum(1 for r in results if r['status'] == s)
RECURSIVE CountStatus(_, _)
CountStatus(rs, s) ==
    IF rs = <<>> THEN 0
    ELSE (IF Head(rs).status = s THEN 1 ELSE 0) + CountStatus(Tail(rs), s)

----------------------------------------------------------------------------
\* The run

\* for path, methods in api_spec['paths'].items(): one iteration.
ExtractStep ==
    /\ pc = "extract"
    /\ api_spec.has_paths
    /\ idx <= Len(api_spec.paths)
    /\ get_endpoints' =
         IF "get" \in api_spec.paths[idx].methods
         THEN Append(get_endpoints, [path |-> api_spec.paths[idx].path])
         ELSE get_endpoints
    /\ idx' = idx + 1
    /\ UNCHANGED << script, api_spec, pc, status_endpoints, requests, results,
                    summary, combined_data, successful_count, failed_count,
                    files, response, error >>

\* api_spec['paths'] on a document without `paths`: KeyError ends the run.
ExtractKeyError ==
    /\ pc = "extract"
    /\ ~api_spec.has_paths
    /\ pc' = "aborted"
    /\ error' = "KeyError"
    /\ UNCHANGED << script, api_spec, idx, get_endpoints, status_endpoints,
                    requests, results, summary, combined_data, successful_count,
                    failed_count, files, response >>

\* The extraction loop is exhausted.
ExtractEnd ==
    /\ pc = "extract"
    /\ api_spec.has_paths
    /\ idx > Len(api_spec.paths)
    /\ pc' = "filter"
    /\ idx' = 1
    /\ UNCHANGED << script, api_spec, get_endpoints, status_endpoints, requests,
                    results, summary, combined_data, successful_count,
                    failed_count, files, response, error >>

\* for endpoint in get_endpoints: one iteration of the filter.
FilterStep ==
    /\ pc = "filter"
    /\ idx <= Len(get_endpoints)
    /\ status_endpoints' =
         IF is_status(get_endpoints[idx].path)
         THEN Append(status_endpoints, get_endpoints[idx])
         ELSE status_endpoints
    /\ idx' = idx + 1
    /\ UNCHANGED << script, api_spec, pc, get_endpoints, requests, results,
                    summary, combined_data, successful_count, failed_count,
                    files, response, error >>

\* The filter loop is exhausted; the combined script goes on to build
\* combined_data, the per-endpoint script to its fetch loop.
FilterEnd ==
    /\ pc = "filter"
    /\ idx > Len(get_endpoints)
    /\ pc' = IF script = "combined" THEN "metadata" ELSE "fetch"
    /\ idx' = 1
    /\ UNCHANGED << script, api_spec, get_endpoints, status_endpoints, requests,
                    results, summary, combined_data, successful_count,
                    failed_count, files, response, error >>

\* combined_data = {...}: reads api_spec['info']['version']; KeyError ends
\* the run when the document has none.
BuildCombined ==
    /\ pc = "metadata"
    /\ IF api_spec.has_version
       THEN /\ combined_data' =
                 [metadata |-> [total_endpoints_in_api |-> Len(get_endpoints),
                                status_endpoints_fetched |-> Len(status_endpoints)],
                  endpoints |-> <<>>]
            /\ pc' = "fetch"
            /\ UNCHANGED error
       ELSE /\ pc' = "aborted"
            /\ error' = "KeyError"
            /\ UNCHANGED combined_data
    /\ UNCHANGED << script, api_spec, idx, get_endpoints, status_endpoints,
                    requests, results, summary, successful_count, failed_count,
                    files, response >>

\* for endpoint in status_endpoints: the iteration up to requests.get(url).
\* The combined script first stores the endpoint's entry under endpoint_key.
SendRequest ==
    /\ pc = "fetch"
    /\ idx <= Len(status_endpoints)
    /\ LET path == status_endpoints[idx].path IN
         /\ requests' = Append(requests, url(path))
         /\ combined_data' =
              IF script = "combined"
              THEN [combined_data EXCEPT !.endpoints =
                      Put(@, endpoint_key(path),
                          [endpoint_info |-> [path |-> path, full_url |-> url(path)]])]
              ELSE combined_data
    /\ pc' = "await"
    /\ UNCHANGED << script, api_spec, idx, get_endpoints, status_endpoints,
                    results, summary, successful_count, failed_count, files,
                    response, error >>

\* The rest of the iteration of the per-endpoint script, on the answer resp.
ReceivePerEndpoint(resp, write_ok) ==
    LET path == status_endpoints[idx].path
        exc  == Raised(resp, write_ok)
    IN  /\ IF exc = "none"
           THEN /\ files' = Put(files, filename(path), Document(url(path)))
                /\ results' = Append(results, SuccessResult(path, resp.status_code))
                /\ UNCHANGED error
           ELSE IF Caught(exc)
           THEN /\ results' = Append(results, ErrorResult(path, exc))
                /\ UNCHANGED << files, error >>
           ELSE /\ error' = exc
                /\ UNCHANGED << results, files >>
        /\ UNCHANGED << combined_data, successful_count, failed_count >>

\* The rest of the iteration of the combined script, on the answer resp.
ReceiveCombined(resp) ==
    LET path == status_endpoints[idx].path
        key  == endpoint_key(path)
        exc  == Raised(resp, TRUE)
    IN  /\ IF exc = "none"
           THEN /\ combined_data' =
                     [combined_data EXCEPT !.endpoints[key] =
                        [endpoint_info |-> @.endpoint_info,
                         fetch_status |-> SuccessStatus(resp.status_code),
                         data |-> Document(url(path))]]
                /\ successful_count' = successful_count + 1
                /\ UNCHANGED << failed_count, error >>
           ELSE IF Caught(exc)
           THEN /\ combined_data' =
                     [combined_data EXCEPT !.endpoints[key] =
                        [endpoint_info |-> @.endpoint_info,
                         fetch_status |-> FailureStatus(exc),
                         data |-> None]]
                /\ failed_count' = failed_count + 1
                /\ UNCHANGED << successful_count, error >>
           ELSE /\ error' = exc
                /\ UNCHANGED << combined_data, successful_count, failed_count >>
        /\ UNCHANGED << results, files >>

\* requests.get returns or raises, and the iteration runs to its end: the
\* loop goes on to the next endpoint unless an exception escaped the try.
ReceiveResponse ==
    /\ pc = "await"
    /\ \E resp \in Responses, write_ok \in BOOLEAN :
         /\ response' = resp
         /\ IF script = "per_endpoint"
            THEN ReceivePerEndpoint(resp, write_ok)
            ELSE ReceiveCombined(resp)
    /\ pc' = IF error' = "none" THEN "fetch" ELSE "crashed"
    /\ idx' = IF error' = "none" THEN idx + 1 ELSE idx
    /\ UNCHANGED << script, api_spec, get_endpoints, status_endpoints, requests,
                    summary >>

\* The fetch loop is exhausted.
FetchEnd ==
    /\ pc = "fetch"
    /\ idx > Len(status_endpoints)
    /\ pc' = "summary"
    /\ UNCHANGED << script, api_spec, idx, get_endpoints, status_endpoints,
                    requests, results, summary, combined_data, successful_count,
                    failed_count, files, response, error >>

\* The summary dict of the per-endpoint script.
BuildSummary ==
    [total_get_endpoints |-> Len(get_endpoints),
     total_status_endpoints |-> Len(status_endpoints),
     successful_fetches |-> CountStatus(results, "success"),
     failed_fetches |-> CountStatus(results, "error"),
     results |-> results]

\* The combined dict with the counts stored in its metadata.
WithCounts ==
    [combined_data EXCEPT !.metadata =
       [total_endpoints_in_api |-> @.total_endpoints_in_api,
        status_endpoints_fetched |-> @.status_endpoints_fetched,
        successful_fetches |-> successful_count,
        failed_fetches |-> failed_count]]

\* The summary is computed and dumped to its file; a failing open() ends the
\* run with the OSError.
WriteSummary ==
    /\ pc = "summary"
    /\ summary' = IF script = "per_endpoint" THEN BuildSummary ELSE summary
    /\ combined_data' = IF script = "combined" THEN WithCounts ELSE combined_data
    /\ \E write_ok \in BOOLEAN :
         IF write_ok
         THEN /\ files' = IF script = "per_endpoint"
                          THEN Put(files, summary_json, BuildSummary)
                          ELSE Put(files, output_file, WithCounts)
              /\ pc' = IF script = "per_endpoint" THEN "done" ELSE "report"
              /\ UNCHANGED error
         ELSE /\ pc' = "crashed"
              /\ error' = "OSError"
              /\ UNCHANGED files
    /\ UNCHANGED << script, api_spec, idx, get_endpoints, status_endpoints,
                    requests, results, successful_count, failed_count, response >>

\* The status line of one endpoint of the text report: looked up under its
\* endpoint_key.
ReportEntry(ep) ==
    [path |-> ep.path,
     status |-> IF endpoint_key(ep.path) \in DOMAIN combined_data.endpoints
                THEN combined_data.endpoints[endpoint_key(ep.path)].fetch_status
                ELSE None]

\* The text report of the combined script, one entry per status endpoint.
WriteReport ==
    /\ pc = "report"
    /\ \E write_ok \in BOOLEAN :
         IF write_ok
         THEN /\ files' = Put(files, summary_file,
                              { ReportEntry(status_endpoints[n]) :
                                  n \in 1..Len(status_endpoints) })
              /\ pc' = "done"
              /\ UNCHANGED error
         ELSE /\ pc' = "crashed"
              /\ error' = "OSError"
              /\ UNCHANGED files
    /\ UNCHANGED << script, api_spec, idx, get_endpoints, status_endpoints,
                    requests, results, summary, combined_data, successful_count,
                    failed_count, response >>

Next ==
    \/ ExtractStep
    \/ ExtractKeyError
    \/ ExtractEnd
    \/ FilterStep
    \/ FilterEnd
    \/ BuildCombined
    \/ SendRequest
    \/ ReceiveResponse
    \/ FetchEnd
    \/ WriteSummary
    \/ WriteReport

Spec == Init /\ [][Next]_vars

SpecClassify == InitClassify /\ [][Next]_vars

----------------------------------------------------------------------------
\* Properties

\* The path has a "{" at some position.
HasBrace(p) == \E q \in DOMAIN p : p[q] = "{"

\* Every path a document can hold.
PoolPaths == UNION (RunPools \cup ClassifyPools \cup {VersionlessPool})

\* The paths whose lowercased form has a blocklisted substring at some position.
BlocklistedPaths ==
    { p \in PoolPaths :
        \E k \in 1..Len(control_keywords) :
          \E off \in 0..(Len(p) - Len(control_keywords[k])) :
            SubSeq(lower(p), off + 1, off + Len(control_keywords[k]))
              = control_keywords[k] }

\* The lowercased path has a blocklisted substring at some position.
HitsBlocklist(p) == p \in BlocklistedPaths

\* The path is one of status_endpoints.
InStatus(p) == \E m \in DOMAIN status_endpoints : status_endpoints[m].path = p

\* A GET was issued for the path.
GetIssued(p) == \E m \in DOMAIN requests : requests[m] = base_url \o p

\* The outcomes recorded so far, by kind.
Successful ==
    IF script = "per_endpoint" THEN CountStatus(results, "success") ELSE successful_count

Failed ==
    IF script = "per_endpoint" THEN CountStatus(results, "error") ELSE failed_count

\* The answer is a transport failure, a timeout, a non-2xx status or a body
\* that is not JSON.
FetchFailed(r) ==
    \/ r.kind # "response"
    \/ r.status_code \notin 200..299
    \/ ~r.json

\* The paths of a `paths` mapping that declare get, have no "{" and hit no
\* blocklisted substring, in the mapping's order.
RECURSIVE ExpectedStatus(_)
ExpectedStatus(items) ==
    IF items = <<>> THEN <<>>
    ELSE (IF /\ "get" \in Head(items).methods
             /\ ~HasBrace(Head(items).path)
             /\ ~HitsBlocklist(Head(items).path)
          THEN << [path |-> Head(items).path] >>
          ELSE <<>>) \o ExpectedStatus(Tail(items))

\* C1: a path of the document that declares get and contains "{" is never in
\* status_endpoints, and no GET is ever issued for it.
C1_ParameterPathsNeverFetched ==
    api_spec.has_paths =>
      \A n \in DOMAIN api_spec.paths :
        ("get" \in api_spec.paths[n].methods /\ HasBrace(api_spec.paths[n].path))
          => /\ ~InStatus(api_spec.paths[n].path)
             /\ ~GetIssued(api_spec.paths[n].path)

\* A finished run that issued a GET, on a document with a get path that has a
\* "{" and no blocklisted substring.
C1_Witness ==
    /\ pc = "done"
    /\ requests # <<>>
    /\ \E n \in DOMAIN api_spec.paths :
         /\ "get" \in api_spec.paths[n].methods
         /\ HasBrace(api_spec.paths[n].path)
         /\ ~HitsBlocklist(api_spec.paths[n].path)

\* C2: a get path whose lowercased form contains a blocklisted substring, at
\* any position and in any letter case, is never in status_endpoints, and no
\* GET is ever issued for it.
C2_ControlPathsNeverFetched ==
    api_spec.has_paths =>
      \A n \in DOMAIN api_spec.paths :
        ("get" \in api_spec.paths[n].methods /\ HitsBlocklist(api_spec.paths[n].path))
          => /\ ~InStatus(api_spec.paths[n].path)
             /\ ~GetIssued(api_spec.paths[n].path)

\* A finished run that issued a GET, on a document with a get path without
\* "{" that has a keyword in capitals inside a longer word.
C2_Witness ==
    /\ pc = "done"
    /\ requests # <<>>
    /\ \E n \in DOMAIN api_spec.paths :
         /\ "get" \in api_spec.paths[n].methods
         /\ ~HasBrace(api_spec.paths[n].path)
         /\ HitsBlocklist(api_spec.paths[n].path)
         /\ api_spec.paths[n].path # lower(api_spec.paths[n].path)

\* C3: once the filter loop has run, status_endpoints is exactly the
\* subsequence, in the document's order, of the paths that declare get, have
\* no "{" and hit no blocklisted substring; it is a function of the document.
C3_StatusIsFilteredSubsequence ==
    (api_spec.has_paths /\ pc \notin {"extract", "filter"})
      => status_endpoints = ExpectedStatus(api_spec.paths)

\* A finished run on three get paths of which the first and the third are
\* kept, in that order, and the second is excluded.
C3_Witness ==
    /\ pc = "done"
    /\ Len(api_spec.paths) = 3
    /\ Len(get_endpoints) = 3
    /\ Len(status_endpoints) = 2
    /\ status_endpoints[1].path = api_spec.paths[1].path
    /\ status_endpoints[2].path = api_spec.paths[3].path

\* C4: the GETs issued are those of status_endpoints, one each and in order;
\* a GET is issued only when every earlier one has its outcome recorded; no
\* failure of a fetch ends the run; and a run that reaches the summary has
\* issued one GET per status endpoint.
C4_EveryEndpointFetchedOnceInOrder ==
    /\ Len(requests) <= Len(status_endpoints)
    /\ \A n \in DOMAIN requests : requests[n] = base_url \o status_endpoints[n].path
    /\ pc \in {"fetch", "summary", "report", "done"}
         => Len(requests) = Successful + Failed
    /\ pc = "await" => Len(requests) = Successful + Failed + 1
    /\ pc \in {"summary", "report", "done"} => Len(requests) = Len(status_endpoints)
    /\ error \in {"none", "KeyError", "OSError"}
    /\ pc \in {"fetch", "await"} => ENABLED (SendRequest \/ ReceiveResponse \/ FetchEnd)

\* A finished run of three GETs of which the first failed and the last
\* succeeded.
C4_Witness ==
    /\ pc = "done"
    /\ script = "per_endpoint"
    /\ Len(requests) = 3
    /\ results[1].status = "error"
    /\ results[3].status = "success"

\* C5: a fetch answered by a transport failure, a timeout, a non-2xx status or
\* a non-JSON body is recorded as a failure: the run goes on with the next
\* endpoint, the failed count grows by exactly one and the successful count
\* does not change.
C5_FailuresRecordedAsData ==
    [][ (pc = "await" /\ FetchFailed(response'))
          => /\ pc' = "fetch"
             /\ error' = "none"
             /\ Failed' = Failed + 1
             /\ Successful' = Successful ]_vars

\* C6: after k iterations of the fetch loop the two counts account for k
\* outcomes; at the summary, and in the summary written, successful plus
\* failed is the number of status endpoints.
C6_CountsAddUp ==
    /\ pc \in {"fetch", "await"} => Successful + Failed = idx - 1
    /\ pc \in {"summary", "report", "done"}
         => Successful + Failed = Len(status_endpoints)
    /\ (script = "per_endpoint" /\ pc = "done")
         => /\ summary.successful_fetches + summary.failed_fetches
                 = summary.total_status_endpoints
            /\ files[summary_json] = summary
    /\ (script = "combined" /\ pc \in {"report", "done"})
         => combined_data.metadata.successful_fetches
              + combined_data.metadata.failed_fetches
              = combined_data.metadata.status_endpoints_fetched

\* A finished run of the per-endpoint script whose summary counts a success
\* and a failure.
C6_Witness ==
    /\ pc = "done"
    /\ script = "per_endpoint"
    /\ summary.successful_fetches >= 1
    /\ summary.failed_fetches >= 1

\* C7: a recorded success carries no error message and a status code in
\* 200..299; a recorded failure carries no data.
C7_OutcomeShape ==
    /\ \A n \in DOMAIN results :
         /\ results[n].status = "success"
              => /\ "error" \notin DOMAIN results[n]
                 /\ results[n].status_code \in 200..299
         /\ results[n].status = "error" => "filename" \notin DOMAIN results[n]
    /\ "endpoints" \in DOMAIN combined_data
         => \A key \in DOMAIN combined_data.endpoints :
              LET entry == combined_data.endpoints[key] IN
                "fetch_status" \in DOMAIN entry
                  => /\ entry.fetch_status.success
                          => /\ "error" \notin DOMAIN entry.fetch_status
                             /\ entry.fetch_status.status_code \in 200..299
                     /\ ~entry.fetch_status.success => entry.data = None

\* C8: in the per-endpoint script no two status endpoints have the same file
\* name, so the file of every recorded success holds that endpoint's data.
C8_FilenamesInjective ==
    script = "per_endpoint" =>
      /\ \A a, b \in DOMAIN status_endpoints :
           a # b => filename(status_endpoints[a].path) # filename(status_endpoints[b].path)
      /\ \A n \in DOMAIN results :
           results[n].status = "success"
             => files[results[n].filename] = Document(url(results[n].endpoint))

\* C9: on a document without `paths` or without info.version the run issues
\* no GET, writes no file and never gets past its fetch loop.
C9_MalformedSpecAborts ==
    (~api_spec.has_paths \/ ~api_spec.has_version)
      => /\ requests = <<>>
         /\ DOMAIN files = {}
         /\ pc \notin {"await", "summary", "report", "done"}

\* C10: at the end of a run of the combined script the endpoints map has one
\* entry per status endpoint, as many as the counts say, and the entry under a
\* path's endpoint_key, which the report reads, is that path's.
C10_OneEntryPerEndpoint ==
    (script = "combined" /\ pc \in {"report", "done"})
      => /\ Cardinality(DOMAIN combined_data.endpoints) = Len(status_endpoints)
         /\ Cardinality(DOMAIN combined_data.endpoints)
              = combined_data.metadata.successful_fetches
                  + combined_data.metadata.failed_fetches
         /\ \A n \in DOMAIN status_endpoints :
              combined_data.endpoints[endpoint_key(status_endpoints[n].path)]
                .endpoint_info.path = status_endpoints[n].path

====
